---- MODULE Spec2Model ----
(***************************************************************************)
(* Token registry of beefy-api (src/src/api/tokens/tokens.ts).             *)
(*                                                                         *)
(* Two specifications share the variables below.                           *)
(*   Spec    - the refresh orchestrator: initTokenService, updateTokens,   *)
(*             the signal bus and the registry tokensByChain.              *)
(*   SpecAgg - the aggregation of one chain (fetchTokensForChain) applied  *)
(*             to bounded vault, boost and address-book data.              *)
(***************************************************************************)
EXTENDS Integers, Sequences, FiniteSets, TLC

VARIABLES
    tokensByChain,  \* the registry: chain -> table, partial (line 12)
    vaults,         \* vault-listing provider: chain -> sequence of vaults
    boosts,         \* boost-listing provider: chain -> sequence of boosts
    addressBook,    \* curated dataset: chain -> chain book
    fired,          \* signal bus: which upstream events have fired at least once
    initPc,         \* position of initTokenService
    cycles,         \* one record per call of updateTokens, in call order; the field
                    \* missed records an upstream emission made while it ran
    scheduled,      \* number of updateTokens calls queued by a settled race
    lastOkInputs,   \* provider data read by the last successful cycle
    aggPc,          \* SpecAgg: position inside fetchTokensForChain
    aggCands,       \* SpecAgg: the three candidate sequences
    aggTbl          \* SpecAgg: byId / byAddress under construction

vars == <<tokensByChain, vaults, boosts, addressBook, fired, initPc, cycles,
          scheduled, lastOkInputs, aggPc, aggCands, aggTbl>>

orchVars == <<tokensByChain, fired, initPc, cycles, scheduled, lastOkInputs>>
aggVars == <<aggPc, aggCands, aggTbl>>
dataVars == <<vaults, boosts, addressBook>>

-----------------------------------------------------------------------------
(* Bounds of the model. *)

MaxCycles == 3
MaxVaults == 2
MaxBookTokens == 3

-----------------------------------------------------------------------------
(* Strings: String.prototype.toLowerCase and viem's getAddress. *)

\* The 0x-strings of the model that are well-formed addresses, in any letter case.
HexAddresses == {"0xaa", "0xAa", "0xAA", "0xbb", "0xBb", "0xcc", "0xCc", "0xe1", "0xE1"}

toLowerCase(s) ==
    CASE s \in {"0xaa", "0xAa", "0xAA"} -> "0xaa"
      [] s \in {"0xbb", "0xBb"} -> "0xbb"
      [] s \in {"0xcc", "0xCc"} -> "0xcc"
      [] s \in {"0xe1", "0xE1"} -> "0xe1"
      [] s = "0xZZ" -> "0xzz"
      [] s = "BNB" -> "bnb"
      [] s = "ETH" -> "eth"
      [] s = "CAKE" -> "cake"
      [] s = "CAKEB" -> "cakeb"
      [] s = "WNATIVE" -> "wnative"
      [] s = "NATIVE" -> "native"
      [] OTHER -> s

isAddress(s) == s \in HexAddresses

\* Mutant of getAddress: the address is stored as the provider spelled it.
getAddressRaw(s) == s

\* getAddress: the checksum form of a well-formed address (it throws on any
\* other string: callers test isAddress first).
getAddress(s) ==
    CASE toLowerCase(s) = "0xaa" -> "0xAa"
      [] toLowerCase(s) = "0xbb" -> "0xBb"
      [] toLowerCase(s) = "0xcc" -> "0xCc"
      [] toLowerCase(s) = "0xe1" -> "0xE1"
      [] OTHER -> s

\* JavaScript `a || b` on strings and numbers: "" and 0 are falsy.
OrStr(a, b) == IF a # "" THEN a ELSE b
OrNum(a, b) == IF a # 0 THEN a ELSE b

-----------------------------------------------------------------------------
(* Chains. *)

\* Object.keys(MULTICHAIN_ENDPOINTS), in key order.
chains == <<"bsc", "ethereum">>
ChainSet == {chains[i] : i \in DOMAIN chains}

toApiChain(c) == IF c = "eth" THEN "ethereum" ELSE c

-----------------------------------------------------------------------------
(* Token records. bridge = "" stands for an absent bridge property. *)

TokenEntity(type, id, symbol, name, chainId, oracle, oracleId, address, decimals, bridge) ==
    [type |-> type, id |-> id, symbol |-> symbol, name |-> name, chainId |-> chainId,
     oracle |-> oracle, oracleId |-> oracleId, address |-> address,
     decimals |-> decimals, bridge |-> bridge]

\* Concatenation of a sequence of sequences (Array.prototype.reduce with push).
RECURSIVE Flatten(_)
Flatten(ss) == IF ss = <<>> THEN <<>> ELSE Head(ss) \o Flatten(Tail(ss))

-----------------------------------------------------------------------------
(* Source adapters. *)

\* The records one vault contributes (the body of the reduce callback).
vaultTokens(vault, chainId) ==
    (IF vault.tokenAddress # "" /\ vault.type # "cowcentrated"
       THEN <<TokenEntity("erc20", vault.token, vault.token, vault.token, chainId,
                          vault.oracle, vault.oracleId, vault.tokenAddress,
                          vault.tokenDecimals, "")>>
       ELSE <<>>)
    \o
    (IF /\ vault.earnedTokenAddress # ""
        /\ vault.earnedTokenAddress # "native"
        /\ vault.earnedTokenAddress # vault.earnContractAddress
       THEN <<TokenEntity("erc20", vault.earnedToken, vault.earnedToken, vault.earnedToken,
                          chainId, "tokens", vault.earnedToken, vault.earnedTokenAddress,
                          OrNum(vault.earnedTokenDecimals, 18), "")>>
       ELSE <<>>)

fetchVaultTokensForChain(chainId) ==
    Flatten([i \in DOMAIN vaults[chainId] |-> vaultTokens(vaults[chainId][i], chainId)])

\* The records one reward contributes, given the vault contract addresses.
rewardTokens(reward, chainId, vaultAddresses) ==
    IF /\ reward.type = "token"
       /\ reward.address # ""
       /\ reward.address # "native"
       /\ reward.address \notin vaultAddresses
      THEN <<TokenEntity("erc20", reward.symbol, reward.symbol, reward.symbol,
                         IF reward.chainId # "" THEN toApiChain(reward.chainId) ELSE chainId,
                         OrStr(reward.oracle, "tokens"),
                         OrStr(reward.oracleId, reward.symbol),
                         reward.address, OrNum(reward.decimals, 18), "")>>
      ELSE <<>>

fetchBoostTokensForChain(chainId) ==
    LET vaultAddresses ==
            {vaults[chainId][i].earnContractAddress : i \in DOMAIN vaults[chainId]}
        boostTokens(boost) ==
            Flatten([j \in DOMAIN boost.rewards |->
                        rewardTokens(boost.rewards[j], chainId, vaultAddresses)])
    IN  Flatten([i \in DOMAIN boosts[chainId] |-> boostTokens(boosts[chainId][i])])

\* The records one address-book entry contributes (the body of the reduce callback).
addressBookEntryTokens(id, token, chainId, native) ==
    IF toLowerCase(id) = toLowerCase(native.symbol)
      THEN <<TokenEntity("native", id, native.symbol, token.name, chainId, "tokens",
                         native.oracleId, "native", token.decimals, "native")>>
      ELSE <<TokenEntity("erc20", id, token.symbol, token.name, chainId,
                         OrStr(token.oracle, "tokens"), OrStr(token.oracleId, id),
                         token.address, token.decimals, token.bridge)>>
           \o
           (IF id = "WNATIVE"
              THEN <<TokenEntity("native", "NATIVE", native.symbol, token.name, chainId,
                                 "tokens", native.oracleId, "native", token.decimals,
                                 "native")>>
              ELSE <<>>)

fetchAddressBookTokensForChain(chainId) ==
    LET chainBook == addressBook[chainId]
        abTokens == chainBook.tokens
    IN  IF ~chainBook.present
          THEN <<>>
        ELSE IF abTokens = <<>> \/ ~(\E i \in DOMAIN abTokens : abTokens[i].id = "WNATIVE")
          THEN <<>>
        ELSE Flatten([i \in DOMAIN abTokens |->
                        addressBookEntryTokens(abTokens[i].id, abTokens[i].token,
                                               chainId, chainBook.native)])

-----------------------------------------------------------------------------
(* Token aggregator. A table is [error, byId, byAddress]; error = "" for a  *)
(* table under construction or returned, otherwise the thrown message.     *)

EmptyTable == [error |-> "", byId |-> <<>>, byAddress |-> <<>>]

Thrown(msg) == [error |-> msg, byId |-> <<>>, byAddress |-> <<>>]

\* Mutant of mergeBridge: the address-map entry is pure first-write-wins.
mergeBridgeNever(existing, token) == existing.bridge

\* Merge extra info: the bridge of `existing` after a later record `token`.
mergeBridge(existing, token) ==
    IF existing.bridge = "" /\ token.bridge # "" THEN token.bridge ELSE existing.bridge

\* Mutant of addTokenById: the id-map keeps the address as the provider spelled it.
addTokenByIdRaw(token, byId) ==
    IF token.id \notin DOMAIN byId
      THEN byId @@ (token.id :> token.address)
      ELSE byId

\* Mutant of addTokenById: the last record with an id decides its address.
addTokenByIdLastWins(token, byId) ==
    (token.id :> toLowerCase(token.address)) @@ byId

\* The id-map after `token` (lines 245-248).
addTokenById(token, byId) ==
    IF token.id \notin DOMAIN byId
      THEN byId @@ (token.id :> toLowerCase(token.address))
      ELSE byId

addToken(token, tbl) ==
    LET addressLower == toLowerCase(token.address)
        byId == addTokenById(token, tbl.byId)
    IN  IF tbl.error # ""
          THEN tbl
        ELSE IF addressLower \notin DOMAIN tbl.byAddress
          THEN IF token.type = "native"
                 THEN [tbl EXCEPT !.byId = byId,
                                  !.byAddress = @ @@ (addressLower :> token)]
               ELSE IF ~isAddress(token.address)
                 THEN Thrown("InvalidAddressError")
               ELSE [tbl EXCEPT !.byId = byId,
                                !.byAddress = @ @@ (addressLower :>
                                    [token EXCEPT !.address = getAddress(token.address)])]
        ELSE [tbl EXCEPT !.byId = byId,
                         !.byAddress[addressLower].bridge =
                             mergeBridge(tbl.byAddress[addressLower], token)]

\* tokens.forEach(token => addToken(token, byId, byAddress)), from table tbl.
RECURSIVE addTokens(_, _)
addTokens(tokens, tbl) ==
    IF tokens = <<>> THEN tbl ELSE addTokens(Tail(tokens), addToken(Head(tokens), tbl))

\* The three adapters' results for a chain (Promise.all, lines 274-278).
candidates(chainId) ==
    [vault |-> fetchVaultTokensForChain(chainId),
     boost |-> fetchBoostTokensForChain(chainId),
     ab |-> fetchAddressBookTokensForChain(chainId)]

\* Mutant of concatenation: the candidates are concatenated in the order the
\* adapters complete, which differs from one call of updateTokens to the next.
concatenationByArrival(cands) ==
    IF Len(cycles) % 2 = 0
      THEN cands.vault \o cands.boost \o cands.ab
      ELSE cands.ab \o cands.boost \o cands.vault

\* [...vaultTokens, ...boostTokens, ...abTokens]
concatenation(cands) == cands.vault \o cands.boost \o cands.ab

mergeCandidates(cands) == addTokens(concatenation(cands), EmptyTable)

\* Mutant of precedenceStep: the address-book record also renames the stored record.
precedenceStepWithId(token, tbl) ==
    LET addressKey == toLowerCase(token.address)
    IN  [tbl EXCEPT !.byAddress[addressKey].oracleId = token.oracleId,
                    !.byAddress[addressKey].symbol = token.symbol,
                    !.byAddress[addressKey].id = token.id]

\* Mutant of precedenceStep: only the symbol is taken from the address book.
precedenceStepSymbolOnly(token, tbl) ==
    [tbl EXCEPT !.byAddress[toLowerCase(token.address)].symbol = token.symbol]

\* One step of the precedence pass: the address-book record wins on oracleId and symbol.
precedenceStep(token, tbl) ==
    LET addressKey == toLowerCase(token.address)
    IN  [tbl EXCEPT !.byAddress[addressKey].oracleId = token.oracleId,
                    !.byAddress[addressKey].symbol = token.symbol]

RECURSIVE precedencePass(_, _)
precedencePass(abTokens, tbl) ==
    IF tbl.error # "" \/ abTokens = <<>>
      THEN tbl
      ELSE precedencePass(Tail(abTokens), precedenceStep(Head(abTokens), tbl))

\* Mutant of validate: the table is returned without the presence checks.
validateNothing(tbl) == tbl

\* The two presence checks before the table is returned.
validate(tbl) ==
    IF tbl.error # "" THEN tbl
    ELSE IF "NATIVE" \notin DOMAIN tbl.byId \/ tbl.byId["NATIVE"] = ""
      THEN Thrown("No native token loaded")
    ELSE IF "WNATIVE" \notin DOMAIN tbl.byId \/ tbl.byId["WNATIVE"] = ""
      THEN Thrown("No wnative token loaded")
    ELSE tbl

aggregate(cands) == validate(precedencePass(cands.ab, mergeCandidates(cands)))

fetchTokensForChain(chainId) ==
    IF chainId \notin ChainSet THEN Thrown("Invalid chain") ELSE aggregate(candidates(chainId))

\* Query surface. Undefined stands for JavaScript's undefined; a call that
\* throws yields Throws(message), a call that returns yields Returns(value).
Undefined == [type |-> "undefined"]

Returns(value) == [threw |-> FALSE, error |-> "", value |-> value]
Throws(msg) == [threw |-> TRUE, error |-> msg, value |-> Undefined]

\* table.byAddress[address.toLowerCase()]
lookupByAddress(tbl, address) ==
    IF toLowerCase(address) \in DOMAIN tbl.byAddress
      THEN tbl.byAddress[toLowerCase(address)]
      ELSE Undefined

\* The two-step lookup of an id in one table.
lookupById(tbl, id) ==
    IF id \in DOMAIN tbl.byId /\ tbl.byId[id] # ""
      THEN lookupByAddress(tbl, tbl.byId[id])
      ELSE Undefined

getTokenByAddress(address, chainId) ==
    IF chainId \in DOMAIN tokensByChain
      THEN lookupByAddress(tokensByChain[chainId], address)
      ELSE Undefined

getTokenById(id, chainId) ==
    IF chainId \in DOMAIN tokensByChain
      THEN lookupById(tokensByChain[chainId], id)
      ELSE Undefined

isTokenNative(token) == token.type = "native"

isTokenErc20(token) == token.type = "erc20"

getTokenNative(chainId) ==
    LET native == getTokenById("NATIVE", chainId)
    IN  IF native = Undefined \/ ~isTokenNative(native)
          THEN Throws("No native token found")
          ELSE Returns(native)

getTokenWrappedNative(chainId) ==
    LET wnative == getTokenById("WNATIVE", chainId)
    IN  IF wnative = Undefined \/ ~isTokenErc20(wnative)
          THEN Throws("No wnative token found")
          ELSE Returns(wnative)

areTokensEqual(tokenA, tokenB) ==
    /\ tokenA.chainId = tokenB.chainId
    /\ tokenA.address = tokenB.address
    /\ tokenA.type = tokenB.type

wrappedToNative(token) ==
    LET wnative == getTokenWrappedNative(token.chainId)
    IN  IF wnative.threw THEN wnative
        ELSE IF areTokensEqual(token, wnative.value) THEN getTokenNative(token.chainId)
        ELSE Returns(token)

-----------------------------------------------------------------------------
(* Provider data the model draws from. *)

Vault(token, tokenAddress, type, oracleId, tokenDecimals, earned, earnedAddress, contract, earnedDecimals) ==
    [token |-> token, tokenAddress |-> tokenAddress, type |-> type, oracle |-> "tokens",
     oracleId |-> oracleId, tokenDecimals |-> tokenDecimals, earnedToken |-> earned,
     earnedTokenAddress |-> earnedAddress, earnContractAddress |-> contract,
     earnedTokenDecimals |-> earnedDecimals]

vCake == Vault("CAKE", "0xAA", "standard", "CAKE-v", 18, "mooCake", "0xE1", "0xE1", 18)
vWbnb == Vault("WBNB", "0xbb", "standard", "WBNB-v", 8, "mooWbnb", "0xE1", "0xE1", 18)
vNat == Vault("NATIVE", "0xCc", "standard", "NATIVE-v", 18, "mooNat", "0xE1", "0xE1", 18)
vClm == Vault("CLM", "0xbb", "cowcentrated", "CLM", 18, "CAKE", "0xCc", "0xE1", 0)
vBad == Vault("BAD", "0xZZ", "standard", "BAD", 18, "mooBad", "0xE1", "0xE1", 18)

VaultPool == {vCake, vWbnb, vNat, vClm, vBad}

Reward(type, address, symbol, oracleId, oracle, decimals, chainId) ==
    [type |-> type, address |-> address, symbol |-> symbol, oracleId |-> oracleId,
     oracle |-> oracle, decimals |-> decimals, chainId |-> chainId]

rCake == Reward("token", "0xAa", "CAKE", "", "", 0, "")
rMoo == Reward("token", "0xE1", "mooCake", "", "", 18, "")
rBifi == Reward("token", "0xcc", "BIFI", "BIFI-o", "chainlink", 18, "eth")
rNative == Reward("token", "native", "BNB", "", "", 18, "")

BoostChoices ==
    {<<>>, <<[rewards |-> <<rCake, rMoo>>]>>, <<[rewards |-> <<rBifi, rNative>>]>>}

BookToken(symbol, name, address, decimals, oracleId, bridge) ==
    [symbol |-> symbol, name |-> name, address |-> address, decimals |-> decimals,
     oracle |-> "", oracleId |-> oracleId, bridge |-> bridge]

eWnative == [id |-> "WNATIVE", token |-> BookToken("WBNB", "Wrapped BNB", "0xBb", 18, "WBNB", "")]
eWbnb == [id |-> "WBNB", token |-> BookToken("WBNB.e", "Bridged WBNB", "0xbb", 18, "", "wormhole")]
eCake == [id |-> "CAKE", token |-> BookToken("Cake", "PancakeSwap", "0xaa", 9, "Cake", "layerzero")]
eCakeB == [id |-> "CAKEB", token |-> BookToken("CakeB", "Cake B", "0xAa", 18, "", "wormhole")]
eBnb == [id |-> "BNB", token |-> BookToken("BNB", "BNB", "0xBb", 18, "BNB", "")]

BookPool == {eWnative, eWbnb, eCake, eCakeB, eBnb}

\* The sequences without repetition of at most n elements of S.
RECURSIVE SeqsUpTo(_, _)
SeqsUpTo(S, n) ==
    IF n = 0 THEN {<<>>}
    ELSE {<<>>} \cup
         UNION {{<<x>> \o t : t \in {u \in SeqsUpTo(S, n - 1) :
                                        \A k \in DOMAIN u : u[k] # x}} : x \in S}

AbsentBook == [present |-> FALSE, tokens |-> <<>>, native |-> [symbol |-> "", oracleId |-> ""]]
Book(tokens, symbol) ==
    [present |-> TRUE, tokens |-> tokens, native |-> [symbol |-> symbol, oracleId |-> symbol]]

-----------------------------------------------------------------------------
(* Signal bus and refresh orchestrator. *)

Events == {"vaults/updated", "boosts/updated"}

\* waitForFirstEvent(e) has resolved: e has fired at least once.
waitForFirstEvent(e) == fired[e]

\* Mutant of startupBarrier: Promise.race instead of Promise.all.
startupRace == waitForFirstEvent("vaults/updated") \/ waitForFirstEvent("boosts/updated")

\* Promise.all over the two startup waits.
startupBarrier == waitForFirstEvent("vaults/updated") /\ waitForFirstEvent("boosts/updated")

\* Mutant of allResolved: Promise.allSettled, which resolves whatever the outcomes.
allSettled(built) == TRUE

\* Promise.all over the per-chain aggregations resolves iff none of them threw.
allResolved(built) == \A c \in ChainSet : built[c].error = ""

\* Mutant of publishSteps: only the first chain's table is assigned.
publishStepsFirstOnly ==
    <<[op |-> "assign", chain |-> chains[1]],
      [op |-> "ready", chain |-> chains[1]],
      [op |-> "updated", chain |-> ""]>>

\* Mutant of publishSteps: the ready signal of a chain precedes its assignment.
publishStepsReadyFirst ==
    Flatten([i \in DOMAIN chains |->
                <<[op |-> "ready", chain |-> chains[i]],
                  [op |-> "assign", chain |-> chains[i]]>>])
    \o <<[op |-> "updated", chain |-> ""]>>

\* The statements of the try block after the await, in execution order.
publishSteps ==
    Flatten([i \in DOMAIN chains |->
                <<[op |-> "assign", chain |-> chains[i]],
                  [op |-> "ready", chain |-> chains[i]]>>])
    \o <<[op |-> "updated", chain |-> ""]>>

\* Mutant of finallyWaits: the race is registered at the end of the try block only.
finallyWaitsOnSuccess(outcome) == IF outcome = "ok" THEN Events ELSE {}

\* The events the finally block waits for next, whatever the cycle's outcome.
finallyWaits(outcome) == Events

\* Mutant of raceSettles: each wait calls updateTokens on its own (no race).
raceSettlesEvery(cy, e) == e \in cy.waiting

\* Promise.race: an emission of e settles the race of cycle cy iff the race
\* awaits e and has not been settled by an earlier emission.
raceSettles(cy, e) == e \in cy.waiting /\ ~cy.settled

NoBuilt == [c \in ChainSet |-> EmptyTable]

\* The synchronous prefix of updateTokens: every chain's adapters are read and
\* the aggregations are left pending behind the await.
NewCycle(origin) ==
    [pc |-> "await", origin |-> origin, inputs |-> <<vaults, boosts>>,
     built |-> [c \in ChainSet |-> fetchTokensForChain(c)],
     before |-> tokensByChain, step |-> 1, assigned |-> {}, ready |-> {},
     updated |-> 0, outcome |-> "", waiting |-> {}, settled |-> FALSE,
     missed |-> FALSE]

\* A cycle is running the synchronous continuation that follows its await.
InSyncBlock == \E i \in DOMAIN cycles : cycles[i].pc \in {"try", "catch", "finally"}

\* serviceEventBus.emit(e) for an upstream event.
BusEmit(e) ==
    /\ fired' = [fired EXCEPT ![e] = TRUE]
    /\ initPc' = IF initPc = "awaiting" /\ startupBarrier' THEN "resolved" ELSE initPc
    /\ cycles' = [i \in DOMAIN cycles |->
                    IF e \in cycles[i].waiting
                      THEN [cycles[i] EXCEPT !.waiting = @ \ {e}, !.settled = TRUE]
                    ELSE IF cycles[i].pc # "done"
                      THEN [cycles[i] EXCEPT !.missed = TRUE]
                    ELSE cycles[i]]
    /\ scheduled' = scheduled + Cardinality({i \in DOMAIN cycles : raceSettles(cycles[i], e)})

OrchVaultChoices ==
    {[c \in ChainSet |-> IF c = "bsc" THEN b ELSE e] :
        b \in {<<>>, <<vCake>>, <<vNat>>}, e \in {<<>>, <<vBad>>}}

OrchBoostChoices ==
    {[c \in ChainSet |-> IF c = "bsc" THEN b ELSE <<>>] :
        b \in {<<>>, <<[rewards |-> <<rCake, rMoo>>]>>}}

OrchBookChoices ==
    {[c \in ChainSet |-> IF c = "bsc" THEN Book(<<eWnative, eCake>>, "BNB") ELSE e] :
        e \in {Book(<<eWnative>>, "ETH"), AbsentBook}}

\* The vault service publishes new data and emits 'vaults/updated'.
VaultsUpdated ==
    /\ aggPc = "off"
    /\ ~InSyncBlock
    /\ \E nv \in OrchVaultChoices : vaults' = nv
    /\ BusEmit("vaults/updated")
    /\ UNCHANGED <<tokensByChain, boosts, addressBook, lastOkInputs, aggVars>>

\* The boost service publishes new data and emits 'boosts/updated'.
BoostsUpdated ==
    /\ aggPc = "off"
    /\ ~InSyncBlock
    /\ \E nb \in OrchBoostChoices : boosts' = nb
    /\ BusEmit("boosts/updated")
    /\ UNCHANGED <<tokensByChain, vaults, addressBook, lastOkInputs, aggVars>>

\* initTokenService after its await: the first call of updateTokens.
InitTokenService ==
    /\ initPc = "resolved"
    /\ Len(cycles) < MaxCycles
    /\ initPc' = "started"
    /\ cycles' = Append(cycles, NewCycle("init"))
    /\ UNCHANGED <<tokensByChain, dataVars, fired, scheduled, lastOkInputs, aggVars>>

\* .then(updateTokens) of a settled race.
ThenUpdateTokens ==
    /\ scheduled > 0
    /\ Len(cycles) < MaxCycles
    /\ scheduled' = scheduled - 1
    /\ cycles' = Append(cycles, NewCycle("race"))
    /\ UNCHANGED <<tokensByChain, dataVars, fired, initPc, lastOkInputs, aggVars>>

\* await Promise.all(...) resolves: the try block goes on.
AwaitResolved(i) ==
    /\ cycles[i].pc = "await"
    /\ ~InSyncBlock
    /\ allResolved(cycles[i].built)
    /\ cycles' = [cycles EXCEPT ![i].pc = "try"]
    /\ UNCHANGED <<tokensByChain, dataVars, fired, initPc, scheduled, lastOkInputs, aggVars>>

\* await Promise.all(...) rejects: control passes to the catch block.
AwaitRejected(i) ==
    /\ cycles[i].pc = "await"
    /\ ~InSyncBlock
    /\ ~allResolved(cycles[i].built)
    /\ cycles' = [cycles EXCEPT ![i].pc = "catch"]
    /\ UNCHANGED <<tokensByChain, dataVars, fired, initPc, scheduled, lastOkInputs, aggVars>>

\* tokensByChain[chainId] = byChain[i]
Assign(i) ==
    LET st == publishSteps[cycles[i].step]
    IN  /\ cycles[i].pc = "try"
        /\ st.op = "assign"
        /\ tokensByChain' = (st.chain :> cycles[i].built[st.chain]) @@ tokensByChain
        /\ cycles' = [cycles EXCEPT ![i].step = @ + 1, ![i].assigned = @ \cup {st.chain}]
        /\ UNCHANGED <<dataVars, fired, initPc, scheduled, lastOkInputs, aggVars>>

\* serviceEventBus.emit(`tokens/${chainId}/ready`)
EmitReady(i) ==
    LET st == publishSteps[cycles[i].step]
    IN  /\ cycles[i].pc = "try"
        /\ st.op = "ready"
        /\ cycles' = [cycles EXCEPT ![i].step = @ + 1, ![i].ready = @ \cup {st.chain}]
        /\ UNCHANGED <<tokensByChain, dataVars, fired, initPc, scheduled, lastOkInputs, aggVars>>

\* serviceEventBus.emit('tokens/updated'), the last statement of the try block.
EmitUpdated(i) ==
    LET st == publishSteps[cycles[i].step]
    IN  /\ cycles[i].pc = "try"
        /\ st.op = "updated"
        /\ cycles' = [cycles EXCEPT ![i].updated = @ + 1, ![i].outcome = "ok",
                                    ![i].pc = "finally"]
        /\ UNCHANGED <<tokensByChain, dataVars, fired, initPc, scheduled, lastOkInputs, aggVars>>

\* catch (err): the failure is logged.
Catch(i) ==
    /\ cycles[i].pc = "catch"
    /\ cycles' = [cycles EXCEPT ![i].outcome = "failed", ![i].pc = "finally"]
    /\ UNCHANGED <<tokensByChain, dataVars, fired, initPc, scheduled, lastOkInputs, aggVars>>

\* finally: the race over the two next-event waits is registered; updateTokens returns.
Finally(i) ==
    /\ cycles[i].pc = "finally"
    /\ cycles' = [cycles EXCEPT ![i].pc = "done",
                                ![i].waiting = finallyWaits(cycles[i].outcome),
                                ![i].inputs = <<>>, ![i].built = NoBuilt,
                                ![i].before = <<>>]
    /\ lastOkInputs' = IF cycles[i].outcome = "ok" THEN cycles[i].inputs ELSE lastOkInputs
    /\ UNCHANGED <<tokensByChain, dataVars, fired, initPc, scheduled, aggVars>>

Init ==
    /\ tokensByChain = <<>>
    /\ vaults \in OrchVaultChoices
    /\ boosts \in OrchBoostChoices
    /\ addressBook \in OrchBookChoices
    /\ fired = [e \in Events |-> FALSE]
    /\ initPc = "awaiting"
    /\ cycles = <<>>
    /\ scheduled = 0
    /\ lastOkInputs = <<>>
    /\ aggPc = "off"
    /\ aggCands = [vault |-> <<>>, boost |-> <<>>, ab |-> <<>>]
    /\ aggTbl = EmptyTable

Next ==
    \/ VaultsUpdated
    \/ BoostsUpdated
    \/ InitTokenService
    \/ ThenUpdateTokens
    \/ \E i \in DOMAIN cycles : AwaitResolved(i)
    \/ \E i \in DOMAIN cycles : AwaitRejected(i)
    \/ \E i \in DOMAIN cycles : Assign(i)
    \/ \E i \in DOMAIN cycles : EmitReady(i)
    \/ \E i \in DOMAIN cycles : EmitUpdated(i)
    \/ \E i \in DOMAIN cycles : Catch(i)
    \/ \E i \in DOMAIN cycles : Finally(i)

Spec == Init /\ [][Next]_vars

-----------------------------------------------------------------------------
(* SpecAgg: fetchTokensForChain("bsc") on bounded provider data. *)

AggChain == "bsc"

\* The three adapters have returned; every candidate is added to the two maps.
AggMerge ==
    /\ aggPc = "start"
    /\ aggCands' = candidates(AggChain)
    /\ aggTbl' = mergeCandidates(candidates(AggChain))
    /\ aggPc' = "merged"
    /\ UNCHANGED <<orchVars, dataVars>>

\* abTokens.forEach: address-book oracleId and symbol take precedence.
AggPrecedence ==
    /\ aggPc = "merged"
    /\ aggTbl.error = ""
    /\ aggTbl' = precedencePass(aggCands.ab, aggTbl)
    /\ aggPc' = "checked"
    /\ UNCHANGED <<orchVars, dataVars, aggCands>>

\* return { byId, byAddress }
AggReturn ==
    /\ aggPc = "checked"
    /\ validate(aggTbl).error = ""
    /\ aggPc' = "done"
    /\ UNCHANGED <<orchVars, dataVars, aggCands, aggTbl>>

\* throw new Error(...), from getAddress or from the presence checks.
AggThrow ==
    /\ aggPc \in {"merged", "checked"}
    /\ validate(aggTbl).error # ""
    /\ aggTbl' = validate(aggTbl)
    /\ aggPc' = "failed"
    /\ UNCHANGED <<orchVars, dataVars, aggCands>>

InitAgg ==
    /\ tokensByChain = <<>>
    /\ vaults \in {[c \in ChainSet |-> IF c = AggChain THEN v ELSE <<>>] :
                      v \in SeqsUpTo(VaultPool, MaxVaults)}
    /\ boosts \in {[c \in ChainSet |-> IF c = AggChain THEN b ELSE <<>>] :
                      b \in BoostChoices}
    /\ addressBook \in {[c \in ChainSet |-> IF c = AggChain THEN b ELSE AbsentBook] :
                      b \in {AbsentBook} \cup
                            {Book(t, "BNB") : t \in SeqsUpTo(BookPool, MaxBookTokens)}}
    /\ fired = [e \in Events |-> FALSE]
    /\ initPc = "awaiting"
    /\ cycles = <<>>
    /\ scheduled = 0
    /\ lastOkInputs = <<>>
    /\ aggPc = "start"
    /\ aggCands = [vault |-> <<>>, boost |-> <<>>, ab |-> <<>>]
    /\ aggTbl = EmptyTable

NextAgg == AggMerge \/ AggPrecedence \/ AggReturn \/ AggThrow

SpecAgg == InitAgg /\ [][NextAgg]_vars

-----------------------------------------------------------------------------
(* Properties of the refresh orchestrator (checked under Spec). *)

Failed(built) == \E c \in ChainSet : built[c].error # ""

InFlight == {i \in DOMAIN cycles : cycles[i].pc # "done"}

\* C1: in a refresh cycle in which the aggregation of at least one chain fails,
\* no registry entry is assigned, no 'tokens/<chain>/ready' and no
\* 'tokens/updated' signal is emitted, and the registry equals the registry the
\* cycle started from, also for the chains whose aggregation succeeded.
CycleAtomicity ==
    \A i \in DOMAIN cycles :
        /\ (cycles[i].pc # "done" /\ Failed(cycles[i].built)) =>
              /\ tokensByChain = cycles[i].before
              /\ cycles[i].assigned = {}
              /\ cycles[i].ready = {}
              /\ cycles[i].updated = 0
              /\ cycles[i].outcome # "ok"
        /\ cycles[i].outcome = "failed" =>
              cycles[i].assigned = {} /\ cycles[i].ready = {} /\ cycles[i].updated = 0

\* A failed cycle ends with one chain aggregated successfully into a table that
\* differs from the published one, and the published one is still in place.
CycleAtomicityWitness ==
    \E i \in DOMAIN cycles :
        /\ cycles[i].pc = "finally"
        /\ cycles[i].outcome = "failed"
        /\ cycles[i].built["bsc"].error = ""
        /\ cycles[i].built["ethereum"].error # ""
        /\ "bsc" \in DOMAIN tokensByChain
        /\ tokensByChain["bsc"] # cycles[i].built["bsc"]

\* C2: every published table has "NATIVE" and "WNATIVE" in its id-map, "NATIVE"
\* resolves to a record of the native variant and "WNATIVE" to one of the erc20
\* variant.
NativeAndWrappedResolve ==
    \A c \in DOMAIN tokensByChain :
        /\ "NATIVE" \in DOMAIN tokensByChain[c].byId
        /\ "WNATIVE" \in DOMAIN tokensByChain[c].byId
        /\ getTokenById("NATIVE", c).type = "native"
        /\ getTokenById("WNATIVE", c).type = "erc20"

\* C3: no cycle starts before both upstream signals have fired; the startup wait
\* is over exactly when both have fired; the first cycle is the one started by
\* initTokenService and initTokenService starts one cycle only.
StartupBarrierHolds ==
    /\ (initPc = "awaiting") <=> ~(fired["vaults/updated"] /\ fired["boosts/updated"])
    /\ (initPc = "started") <=> (cycles # <<>>)
    /\ cycles # <<>> => cycles[1].origin = "init"
    /\ Cardinality({i \in DOMAIN cycles : cycles[i].origin = "init"}) <= 1

StartupBarrierWitness ==
    /\ initPc = "started"
    /\ Len(cycles) >= 2
    /\ cycles[1].origin = "init"

\* C4: after every cycle, successful or failed, the race over the next
\* 'vaults/updated' and 'boosts/updated' is registered; it stays registered on
\* both events until one of them is emitted, and that first emission queues the
\* next call of updateTokens.
ReArmed ==
    \A i \in DOMAIN cycles :
        cycles[i].pc = "done" =>
            /\ ~cycles[i].settled => cycles[i].waiting = Events
            /\ cycles[i].settled => (i < Len(cycles) \/ scheduled > 0)
            /\ cycles[i].settled <=> cycles[i].waiting # Events

ReArmedWitness ==
    \E i \in DOMAIN cycles :
        /\ cycles[i].pc = "done"
        /\ cycles[i].outcome = "failed"
        /\ i < Len(cycles)

\* C5: at most one cycle is in flight, counting a call of updateTokens that a
\* settled race has queued; the losing wait of a race and a signal emitted
\* during a cycle start no further cycle.
SingleFlight == Cardinality(InFlight) + scheduled <= 1

SingleFlightWitness ==
    \E i, j \in DOMAIN cycles :
        /\ i < j
        /\ cycles[i].settled
        /\ cycles[i].waiting = {}
        /\ cycles[j].pc = "await"

\* C6: 'tokens/<chain>/ready' is emitted only for a chain whose registry entry
\* this cycle has already assigned; 'tokens/updated' is emitted at most once per
\* cycle, exactly once by a successful one, after every chain's ready signal,
\* when every chain's registry entry is the table this cycle built.
SignalOrdering ==
    \A i \in DOMAIN cycles :
        /\ cycles[i].ready \subseteq cycles[i].assigned
        /\ cycles[i].pc \in {"try", "finally"} =>
              \A c \in cycles[i].assigned :
                  c \in DOMAIN tokensByChain /\ tokensByChain[c] = cycles[i].built[c]
        /\ cycles[i].updated <= 1
        /\ cycles[i].updated = 1 =>
              cycles[i].ready = ChainSet /\ cycles[i].assigned = ChainSet
        /\ cycles[i].outcome = "ok" <=> cycles[i].updated = 1
        /\ cycles[i].pc = "done" => cycles[i].outcome \in {"ok", "failed"}

SignalOrderingWitness ==
    \E i \in DOMAIN cycles :
        /\ i >= 2
        /\ cycles[i].pc = "finally"
        /\ cycles[i].updated = 1
        /\ cycles[i].before # tokensByChain

-----------------------------------------------------------------------------
(* Properties of the aggregation (checked under SpecAgg). *)

\* The candidates in the order they were added, and where each source ends.
AllCands == aggCands.vault \o aggCands.boost \o aggCands.ab
LastDiscovered == Len(aggCands.vault) + Len(aggCands.boost)

Min(S) == CHOOSE x \in S : \A y \in S : x <= y
Max(S) == CHOOSE x \in S : \A y \in S : y <= x

\* Positions of the candidates with logical id `id`, resp. at address key `a`.
WithId(id) == {k \in DOMAIN AllCands : AllCands[k].id = id}
AtAddress(a) == {k \in DOMAIN AllCands : toLowerCase(AllCands[k].address) = a}
Bridged(a) == {k \in AtAddress(a) : AllCands[k].bridge # ""}

\* C7: the id-map of a returned table has exactly the candidates' logical ids,
\* and maps each to the lower-cased address of the first candidate with that id
\* in the order vault-derived, boost-derived, curated.
FirstWriteWinsOnId ==
    aggPc = "done" =>
        /\ DOMAIN aggTbl.byId = {AllCands[k].id : k \in DOMAIN AllCands}
        /\ \A k \in DOMAIN AllCands :
              aggTbl.byId[AllCands[k].id] =
                  toLowerCase(AllCands[Min(WithId(AllCands[k].id))].address)

\* A vault-derived and a curated record share an id at different addresses.
FirstWriteWinsOnIdWitness ==
    /\ aggPc = "done"
    /\ \E j, k \in DOMAIN AllCands :
          /\ j <= Len(aggCands.vault)
          /\ k > LastDiscovered
          /\ AllCands[j].id = AllCands[k].id
          /\ toLowerCase(AllCands[j].address) # toLowerCase(AllCands[k].address)
          /\ aggTbl.byId[AllCands[k].id] = toLowerCase(AllCands[j].address)

\* C8: at an address first inserted by a vault- or boost-derived record and
\* present in the curated records, the entry of a returned table has the symbol
\* and oracleId of the (last) curated record at that address, and the id, name,
\* decimals, oracle, chainId and type of the first record.
CuratedOverride ==
    aggPc = "done" =>
        \A a \in DOMAIN aggTbl.byAddress :
            LET first == AllCands[Min(AtAddress(a))]
                curated == {k \in AtAddress(a) : k > LastDiscovered}
                entry == aggTbl.byAddress[a]
            IN  (Min(AtAddress(a)) <= LastDiscovered /\ curated # {}) =>
                    /\ entry.symbol = AllCands[Max(curated)].symbol
                    /\ entry.oracleId = AllCands[Max(curated)].oracleId
                    /\ entry.id = first.id
                    /\ entry.name = first.name
                    /\ entry.decimals = first.decimals
                    /\ entry.oracle = first.oracle
                    /\ entry.chainId = first.chainId
                    /\ entry.type = first.type

\* A vault-derived entry whose symbol and oracleId were replaced by curated
\* ones while its decimals stayed the vault's.
CuratedOverrideWitness ==
    /\ aggPc = "done"
    /\ \E a \in DOMAIN aggTbl.byAddress :
          LET first == AllCands[Min(AtAddress(a))]
              curated == {k \in AtAddress(a) : k > LastDiscovered}
          IN  /\ Min(AtAddress(a)) <= Len(aggCands.vault)
              /\ curated # {}
              /\ aggTbl.byAddress[a].symbol # first.symbol
              /\ aggTbl.byAddress[a].oracleId # first.oracleId
              /\ aggTbl.byAddress[a].decimals # AllCands[Max(curated)].decimals

\* C9: in a returned table the bridge tag of an entry is the bridge tag of the
\* first record at its address when that record carries one, and otherwise the
\* tag of the first later record at the address that carries one (none if no
\* record at the address carries one).
BridgeBackfill ==
    aggPc = "done" =>
        \A a \in DOMAIN aggTbl.byAddress :
            LET first == AllCands[Min(AtAddress(a))]
                entry == aggTbl.byAddress[a]
            IN  /\ first.bridge # "" => entry.bridge = first.bridge
                /\ (first.bridge = "" /\ Bridged(a) # {}) =>
                       entry.bridge = AllCands[Min(Bridged(a))].bridge
                /\ Bridged(a) = {} => entry.bridge = ""

\* One address was backfilled from a later record, and at another the first
\* record's tag survived a later record with a different or no tag.
BridgeBackfillWitness ==
    /\ aggPc = "done"
    /\ \E a \in DOMAIN aggTbl.byAddress :
          /\ AllCands[Min(AtAddress(a))].bridge = ""
          /\ Bridged(a) # {}
          /\ aggTbl.byAddress[a].bridge # ""
    /\ \E a \in DOMAIN aggTbl.byAddress :
          /\ AllCands[Min(AtAddress(a))].bridge # ""
          /\ \E k \in AtAddress(a) :
                AllCands[k].bridge # AllCands[Min(AtAddress(a))].bridge

-----------------------------------------------------------------------------
(* Properties of the query surface (checked under Spec). *)

\* C11: getTokenNative and getTokenWrappedNative throw for a chain without a
\* published table, and for every chain present in the registry both return,
\* a record of the native variant and of the erc20 variant respectively.
NativeAccessorsTotalOnPublished ==
    \A c \in ChainSet :
        /\ c \notin DOMAIN tokensByChain =>
              /\ getTokenNative(c).threw
              /\ getTokenWrappedNative(c).threw
        /\ c \in DOMAIN tokensByChain =>
              /\ ~getTokenNative(c).threw
              /\ getTokenNative(c).value.type = "native"
              /\ ~getTokenWrappedNative(c).threw
              /\ getTokenWrappedNative(c).value.type = "erc20"

\* The records wrappedToNative is applied to: every record of a published table
\* and, for every chain, a record that is in no table.
ProbeTokens ==
    UNION {{tokensByChain[c].byAddress[a] : a \in DOMAIN tokensByChain[c].byAddress} :
              c \in DOMAIN tokensByChain}
    \cup {TokenEntity("erc20", "BIFI", "BIFI", "BIFI", c, "tokens", "BIFI", "0xCc", 18, "") :
              c \in ChainSet}

\* C12: wrappedToNative returns for every record: the Native record of the
\* record's chain when the record equals that chain's wrapped-native record
\* (same chain, address and variant), and the record itself in every other
\* case, also when its chain has no published table.
WrappedToNativeTotal ==
    \A t \in ProbeTokens :
        LET r == wrappedToNative(t)
            isWrapped ==
                /\ t.chainId \in DOMAIN tokensByChain
                /\ lookupById(tokensByChain[t.chainId], "WNATIVE").type = "erc20"
                /\ areTokensEqual(t, lookupById(tokensByChain[t.chainId], "WNATIVE"))
        IN  /\ ~r.threw
            /\ isWrapped => r.value.type = "native" /\ r.value.chainId = t.chainId
            /\ ~isWrapped => r.value = t

-----------------------------------------------------------------------------
(* Absent curated dataset (checked under Spec). *)

AbsentChains == {c \in ChainSet : ~addressBook[c].present}

PresenceErrors == {"No native token loaded", "No wnative token loaded"}

\* C13 as stated: in a cycle run while the curated dataset of a chain is
\* absent, that chain's aggregation fails with the missing native or
\* wrapped-native error, and every other chain whose aggregation succeeded has
\* its table of this cycle in the registry when the cycle ends.
AbsentBookOthersUnaffected ==
    \A i \in DOMAIN cycles : \A c \in AbsentChains :
        cycles[i].pc = "finally" =>
            /\ cycles[i].built[c].error \in PresenceErrors
            /\ \A d \in ChainSet \ {c} :
                  cycles[i].built[d].error = "" =>
                      /\ d \in DOMAIN tokensByChain
                      /\ tokensByChain[d] = cycles[i].built[d]

\* C13 amended: the chain's aggregation throws, with the missing native or
\* wrapped-native error or with an invalid-address error raised before it,
\* unless the vault- and boost-derived records themselves carry the ids (then
\* "NATIVE" resolves to an erc20 record); when it throws the cycle fails as a
\* whole: nothing is assigned, no ready signal is emitted and the registry is
\* the one the cycle started from, for the other chains too.
AbsentBookFailsCycle ==
    \A i \in DOMAIN cycles : \A c \in AbsentChains :
        cycles[i].pc # "done" =>
            /\ \/ cycles[i].built[c].error \in PresenceErrors \cup {"InvalidAddressError"}
               \/ /\ cycles[i].built[c].error = ""
                  /\ lookupById(cycles[i].built[c], "NATIVE").type = "erc20"
                  /\ lookupById(cycles[i].built[c], "WNATIVE").type = "erc20"
            /\ cycles[i].built[c].error # "" =>
                  /\ tokensByChain = cycles[i].before
                  /\ cycles[i].assigned = {}
                  /\ cycles[i].ready = {}
                  /\ cycles[i].outcome # "ok"

\* A cycle ends failed on the absent dataset of ethereum while the aggregation
\* of bsc succeeded, and bsc is not in the registry.
AbsentBookFailsCycleWitness ==
    \E i \in DOMAIN cycles :
        /\ cycles[i].pc = "finally"
        /\ "ethereum" \in AbsentChains
        /\ cycles[i].built["ethereum"].error \in PresenceErrors
        /\ cycles[i].built["bsc"].error = ""
        /\ "bsc" \notin DOMAIN tokensByChain

-----------------------------------------------------------------------------
(* Signals emitted during a cycle (checked under Spec). *)

\* C15: when an upstream signal was emitted while a cycle was in flight, the
\* wait registered at the end of that cycle is settled by it: once the cycle
\* is done a further call of updateTokens is queued or has started, with no
\* further emission.
MidCycleSignalObserved ==
    \A i \in DOMAIN cycles :
        (cycles[i].pc = "done" /\ cycles[i].missed) =>
            (cycles[i].settled /\ (i < Len(cycles) \/ scheduled > 0))

-----------------------------------------------------------------------------
(* Lifecycle of the registry (checked under Spec). *)

Publishing == {i \in DOMAIN cycles : cycles[i].pc = "try"}

RegistryInv ==
    /\ DOMAIN tokensByChain # {} =>
          \E i \in DOMAIN cycles :
              \/ cycles[i].outcome = "ok"
              \/ i \in Publishing /\ cycles[i].assigned # {}
    /\ Publishing = {} => DOMAIN tokensByChain \in {{}, ChainSet}

RegistryStep ==
    /\ DOMAIN tokensByChain \subseteq DOMAIN tokensByChain'
    /\ \A c \in DOMAIN tokensByChain' :
          (c \notin DOMAIN tokensByChain \/ tokensByChain'[c] # tokensByChain[c]) =>
              \E i \in Publishing :
                  /\ \A d \in ChainSet : cycles[i].built[d].error = ""
                  /\ tokensByChain'[c] = cycles[i].built[c]

\* C16: the registry is empty until a cycle whose aggregations all succeeded
\* starts publishing; whenever no cycle is inside its publication step the
\* chains present are none or all of the supported chains; a chain present
\* stays present, and an entry changes only by being replaced with the table
\* a publishing cycle built before its await resolved.
RegistryLifecycle == []RegistryInv /\ [][RegistryStep]_vars

\* A later cycle is publishing and has replaced the table an earlier cycle
\* published for some chain with a different one.
RegistryLifecycleWitness ==
    \E i \in Publishing : \E c \in cycles[i].assigned :
        /\ c \in DOMAIN cycles[i].before
        /\ tokensByChain[c] # cycles[i].before[c]
        /\ tokensByChain[c] = cycles[i].built[c]

-----------------------------------------------------------------------------
(* Keys and stored addresses of a returned table (checked under SpecAgg). *)

\* The checksum spelling of each well-formed address of the model.
ChecksumForms == {"0xAa", "0xBb", "0xCc", "0xE1"}

\* The spellings a caller may pass to getTokenByAddress.
Spellings == HexAddresses \cup {"native", "NATIVE"}

LowerCased(s) == toLowerCase(s) = s

\* C14: in a returned table every key of the address-map and every value of
\* the id-map is lower-cased, so the lookup by address gives the same record
\* for every letter-case spelling of an address and finds every candidate's
\* address; an erc20 record is stored under its lower-cased address with the
\* checksum spelling in its address field, a native record under 'native'
\* with the literal 'native'.
AddressNormalised ==
    aggPc = "done" =>
        /\ \A k \in DOMAIN aggTbl.byAddress : LowerCased(k)
        /\ \A id \in DOMAIN aggTbl.byId : LowerCased(aggTbl.byId[id])
        /\ \A a, b \in Spellings :
              toLowerCase(a) = toLowerCase(b) =>
                  lookupByAddress(aggTbl, a) = lookupByAddress(aggTbl, b)
        /\ \A k \in DOMAIN AllCands :
              lookupByAddress(aggTbl, AllCands[k].address) # Undefined
        /\ \A k \in DOMAIN aggTbl.byAddress :
              LET stored == aggTbl.byAddress[k]
              IN  IF stored.type = "native"
                    THEN stored.address = "native" /\ k = "native"
                    ELSE /\ stored.address \in ChecksumForms
                         /\ toLowerCase(stored.address) = k

\* A table is returned that holds the native record and an erc20 record whose
\* provider spelled the address in neither lower case nor checksum form.
AddressNormalisedWitness ==
    /\ aggPc = "done"
    /\ "native" \in DOMAIN aggTbl.byAddress
    /\ \E k \in DOMAIN AllCands :
          /\ AllCands[k].type = "erc20"
          /\ AllCands[k].address \notin ChecksumForms
          /\ ~LowerCased(AllCands[k].address)
          /\ Min(AtAddress(toLowerCase(AllCands[k].address))) = k
          /\ lookupByAddress(aggTbl, AllCands[k].address).address \in ChecksumForms

-----------------------------------------------------------------------------
(* The two indexes of a returned table (checked under SpecAgg). *)

\* C17: in a returned table every address in the range of the id-map is a key
\* of the address-map, so the lookup by id gives a record, never undefined,
\* for every id of the id-map, and that record is the one the lookup by
\* address gives for the id's address.
ReferentialIntegrity ==
    aggPc = "done" =>
        \A id \in DOMAIN aggTbl.byId :
            /\ aggTbl.byId[id] \in DOMAIN aggTbl.byAddress
            /\ lookupById(aggTbl, id) # Undefined
            /\ lookupById(aggTbl, id) = aggTbl.byAddress[aggTbl.byId[id]]
            /\ lookupById(aggTbl, id) = lookupByAddress(aggTbl, aggTbl.byId[id])

\* A table is returned whose id-map holds an id coming from a later record at
\* an address already taken, spelled differently from the stored key.
ReferentialIntegrityWitness ==
    /\ aggPc = "done"
    /\ \E k \in DOMAIN AllCands :
          /\ Min(WithId(AllCands[k].id)) = k
          /\ Min(AtAddress(toLowerCase(AllCands[k].address))) < k
          /\ ~LowerCased(AllCands[k].address)
          /\ lookupById(aggTbl, AllCands[k].id) # Undefined

-----------------------------------------------------------------------------
(* Chain of the stored records (checked under SpecAgg). *)

\* C18: every record of the table returned for a chain carries that chain as
\* its chainId, whatever the vault, boost and address-book inputs are.
RecordsBelongToChain ==
    aggPc = "done" =>
        \A k \in DOMAIN aggTbl.byAddress : aggTbl.byAddress[k].chainId = AggChain

-----------------------------------------------------------------------------
(* The id of the record an id resolves to (checked under SpecAgg). *)

\* C19, as stated: for every id of the id-map of a returned table, the record
\* the lookup by id gives carries the requested id.
LookupByIdKeepsId ==
    aggPc = "done" =>
        \A id \in DOMAIN aggTbl.byId : lookupById(aggTbl, id).id = id

\* The first candidate at the address of the first candidate carrying id.
FirstAtAddressOf(id) ==
    Min(AtAddress(toLowerCase(AllCands[Min(WithId(id))].address)))

\* C19, amended: for every id of the id-map of a returned table, the record
\* the lookup by id gives is the one stored at the address of the first
\* candidate carrying that id, and its id is the id of the first candidate at
\* that address; it is the requested id exactly when that candidate carries it.
LookupByIdGivesFirstAtAddress ==
    aggPc = "done" =>
        \A id \in DOMAIN aggTbl.byId :
            /\ WithId(id) # {}
            /\ aggTbl.byId[id] = toLowerCase(AllCands[Min(WithId(id))].address)
            /\ lookupById(aggTbl, id).id = AllCands[FirstAtAddressOf(id)].id
            /\ (lookupById(aggTbl, id).id = id) <=> (FirstAtAddressOf(id) \in WithId(id))

\* A table is returned in which the native symbol and "NATIVE" both resolve to
\* the one record stored at 'native', and an erc20 id resolves to a record
\* that carries another id.
LookupByIdGivesFirstAtAddressWitness ==
    /\ aggPc = "done"
    /\ \E id \in DOMAIN aggTbl.byId :
          /\ id # "NATIVE"
          /\ aggTbl.byId[id] = "native"
          /\ lookupById(aggTbl, id) = lookupById(aggTbl, "NATIVE")
    /\ \E id \in DOMAIN aggTbl.byId :
          /\ aggTbl.byId[id] # "native"
          /\ lookupById(aggTbl, id).id # id

====
